---- MODULE Spec2Model ----
(***************************************************************************)
(* Model of the GDB command surface of langkit (langkit/gdb/commands.py):  *)
(* the `state`, `break`, `next`, `out` and `si` commands, run one at a     *)
(* time by the host debugger's command loop, and the run() and render()    *)
(* methods of StatePrinter called again on an instance already built.      *)
(*                                                                         *)
(* Text is modelled as a sequence of one-character strings, so that        *)
(* str.lower, str.split, str.startswith, `in` and int() are computed, not  *)
(* assumed.  An optional value (Python None or a value) is <<>> or <<v>>.  *)
(***************************************************************************)
EXTENDS Integers, Sequences, FiniteSets, TLC

VARIABLES
    debug_info,   \* context.debug_info: the read-only debug metadata index
    frame,        \* the selected (paused) frame: decoded state and variables
    breakpoints,  \* the host debugger's breakpoints, in creation order
    cmd,          \* the command the command loop ran last, with its argument
    consumed,     \* the lines the last command read from standard input
    out,          \* the lines the last command printed on standard output
    calls,        \* the collaborators the last command called, in order
    result,       \* how the last command's handler ended
    printer       \* the StatePrinter at hand: the one the last command
                  \* constructed, as its latest call left it, if any

vars == <<debug_info, frame, breakpoints, cmd, consumed, out, calls, result,
          printer>>

(***************************************************************************)
(* Bounds of the model.                                                    *)
(***************************************************************************)
\* The `break` command is not run once this many breakpoints exist.
MaxBreakpoints == 1
\* Calls of run() and render() followed on one StatePrinter instance.
MaxRenders == 2

(***************************************************************************)
(* Optional values and text.                                               *)
(***************************************************************************)
None == <<>>
Some(v) == <<v>>
IsNone(o) == o = <<>>
Get(o) == o[1]

\* The sequence s without its first n elements.
Drop(s, n) == SubSeq(s, n + 1, Len(s))

\* The text made of n copies of the character c.
Rep(c, n) == [i \in 1..n |-> c]

\* x in s, for a character x and a text s.
Contains(s, x) == \E i \in DOMAIN s : s[i] = x

\* The characters of s, as Python's set(s).
CharSet(s) == {s[i] : i \in DOMAIN s}

\* str.lower on one character of the model's alphabet.
LowerChar(c) ==
    CASE c = "F" -> "f"
      [] c = "P" -> "p"
      [] c = "G" -> "g"
      [] c = "N" -> "n"
      [] c = "X" -> "x"
      [] c = "Y" -> "y"
      [] OTHER -> c

\* str.lower.
lower(s) == [i \in DOMAIN s |-> LowerChar(s[i])]

\* ' '.join(words).
RECURSIVE Join(_)
Join(words) ==
    IF Len(words) = 0 THEN <<>>
    ELSE IF Len(words) = 1 THEN words[1]
    ELSE words[1] \o <<" ">> \o Join(Tail(words))

\* str.split(None, maxsplit) on a text given as its whitespace-separated
\* words: at most maxsplit splits are made, the rest stays one piece.
SplitMax(words, maxsplit) ==
    IF Len(words) <= maxsplit + 1 THEN words
    ELSE SubSeq(words, 1, maxsplit) \o <<Join(Drop(words, maxsplit))>>

Digits == {"0", "1", "2", "3", "4", "5", "6", "7", "8", "9"}

DigitVal(c) ==
    CASE c = "0" -> 0 [] c = "1" -> 1 [] c = "2" -> 2 [] c = "3" -> 3
      [] c = "4" -> 4 [] c = "5" -> 5 [] c = "6" -> 6 [] c = "7" -> 7
      [] c = "8" -> 8 [] c = "9" -> 9

RECURSIVE DecVal(_)
DecVal(s) ==
    IF Len(s) = 0 THEN 0
    ELSE 10 * DecVal(SubSeq(s, 1, Len(s) - 1)) + DigitVal(s[Len(s)])

\* Python's int(text): None when it raises ValueError.  An optional sign is
\* followed by at least one digit and nothing else.
ParseInt(s) ==
    LET signed == Len(s) > 0 /\ s[1] \in {"+", "-"}
        body == IF signed THEN Tail(s) ELSE s
    IN  IF Len(body) = 0 \/ \E i \in DOMAIN body : body[i] \notin Digits
        THEN None
        ELSE Some(IF signed /\ s[1] = "-" THEN 0 - DecVal(body)
                  ELSE DecVal(body))

(***************************************************************************)
(* The debug metadata index (langkit.gdb.debug_info, consumed read-only).  *)
(***************************************************************************)
\* A DSL source location; the column is optional.
DSLLocation(file, line, col) == [file |-> file, line |-> line, col |-> col]

\* DSLLocation.parse on the user-facing form <file>:<line>.
DSLLocation_parse(text) ==
    LET colon == CHOOSE i \in DOMAIN text : text[i] = ":"
    IN  DSLLocation(SubSeq(text, 1, colon - 1),
                    DecVal(Drop(text, colon)), None)

\* DSLLocation.matches: a query without column matches any column of the
\* same file and line.
DSLLocation_matches(sloc, query) ==
    /\ sloc.file = query.file
    /\ sloc.line = query.line
    /\ (IsNone(query.col) \/ query.col = sloc.col)

ExprStart(dsl_sloc, line_no) ==
    [kind |-> "ExprStart", dsl_sloc |-> dsl_sloc, line_no |-> line_no]
ExprDone(line_no) == [kind |-> "ExprDone", line_no |-> line_no]
Scope(events) == [kind |-> "Scope", events |-> events]
\* A property is itself the outermost scope of its events.
Property(name, body_start, events) ==
    [kind |-> "Scope", name |-> name, body_start |-> body_start,
     events |-> events]

DslFile == <<"s">>
OtherDslFile == <<"t">>

\* The indexes the session may have loaded.  In IndexNested one DSL line
\* starts three expressions of one property, at three nesting depths; in
\* IndexTwoProps it starts one expression in each of two properties.
IndexNested ==
    [filename |-> "foo.adb",
     properties |-> <<
        Property(<<"F", "p">>, Some(10), <<
            ExprStart(Some(DSLLocation(DslFile, 1, Some(1))), 11),
            Scope(<<
                ExprStart(Some(DSLLocation(DslFile, 1, Some(2))), 12),
                ExprDone(12),
                ExprStart(Some(DSLLocation(DslFile, 2, None)), 13),
                Scope(<<
                    ExprStart(Some(DSLLocation(DslFile, 1, Some(3))), 14) >>)
            >>),
            ExprStart(None, 15) >>),
        Property(<<"G">>, None, <<>>) >>]

IndexTwoProps ==
    [filename |-> "bar.adb",
     properties |-> <<
        Property(<<"F", "p">>, Some(20), <<
            ExprStart(Some(DSLLocation(DslFile, 1, None)), 21),
            ExprDone(22) >>),
        Property(<<"X", "y">>, Some(30), <<
            Scope(<< ExprStart(Some(DSLLocation(DslFile, 1, None)), 31) >>),
            ExprStart(Some(DSLLocation(OtherDslFile, 1, None)), 32),
            ExprStart(Some(DSLLocation(DslFile, 3, None)), 33) >>) >>]

IndexEmpty == [filename |-> "nil.adb", properties |-> <<>>]

DebugInfos == {IndexNested, IndexTwoProps, IndexEmpty}

(***************************************************************************)
(* What a handler or a helper does: the lines it prints, the breakpoints   *)
(* it creates, the collaborators it calls, the input lines it reads, the   *)
(* value it returns and the exception it raises, if any.                   *)
(***************************************************************************)
Effect(ret, printed, created, called, read, raised) ==
    [ret |-> ret, out |-> printed, created |-> created, calls |-> called,
     consumed |-> read, raised |-> raised]

Line(kind, text) == [kind |-> kind, text |-> text]

\* gdb.Breakpoint('<file>:<line>'): a new breakpoint, without condition.
gdb_Breakpoint(filename, line) ==
    [location |-> [file |-> filename, line |-> line], condition |-> None]

(***************************************************************************)
(* BreakCommand                                                            *)
(***************************************************************************)
\* The index in properties of the first property whose lower-cased name is
\* lower_prop, or 0: the for/else loop of break_on_property.
FindProperty(properties, lower_prop) ==
    LET hits == {i \in DOMAIN properties :
                    lower(properties[i].name) = lower_prop}
    IN  IF hits = {} THEN 0
        ELSE CHOOSE i \in hits : \A j \in hits : i <= j

\* The key the query is looked up by, as typed: what the lookup would use
\* without the call to lower.
LowerProp_AsTyped(qualname) == qualname

\* lower_prop: the key the query is looked up by.
LowerProp(qualname) == lower(qualname)

break_on_property(di, qualname) ==
    LET lower_prop == LowerProp(qualname)
        found == FindProperty(di.properties, lower_prop)
        prop == di.properties[found]
    IN  IF found = 0
        THEN Effect(None, <<Line("No such property", qualname)>>,
                    <<>>, <<>>, <<>>, None)
        ELSE IF IsNone(prop.body_start)
        THEN Effect(None, <<Line("Cannot break: no code", prop.name)>>,
                    <<>>, <<>>, <<>>, None)
        ELSE LET bp == gdb_Breakpoint(di.filename, Get(prop.body_start))
             IN  Effect(Some(bp), <<>>, <<bp>>, <<"gdb.Breakpoint">>, <<>>,
                        None)

Match(prop, dsl_sloc, line_no) ==
    [prop |-> prop, dsl_sloc |-> dsl_sloc, line_no |-> line_no]

\* Whether the event e is the start of an expression located at dsl_sloc.
EventMatches(e, dsl_sloc) ==
    /\ e.kind = "ExprStart"
    /\ ~IsNone(e.dsl_sloc)
    /\ DSLLocation_matches(Get(e.dsl_sloc), dsl_sloc)

\* process_scope without the recursive call: nested scopes are skipped.
process_scope_flat(prop, scope, dsl_sloc) ==
    LET OfEvent(e) ==
            IF EventMatches(e, dsl_sloc)
            THEN <<Match(prop, Get(e.dsl_sloc), e.line_no)>>
            ELSE <<>>
        Upto[i \in 0..Len(scope.events)] ==
            IF i = 0 THEN <<>> ELSE Upto[i - 1] \o OfEvent(scope.events[i])
    IN  Upto[Len(scope.events)]

\* process_scope: the matches found in scope, in the order of its events,
\* a nested scope's matches standing where the scope stands.
RECURSIVE process_scope(_, _, _)
process_scope(prop, scope, dsl_sloc) ==
    LET OfEvent(e) ==
            IF e.kind = "Scope" THEN process_scope(prop, e, dsl_sloc)
            ELSE IF EventMatches(e, dsl_sloc)
            THEN <<Match(prop, Get(e.dsl_sloc), e.line_no)>>
            ELSE <<>>
        Upto[i \in 0..Len(scope.events)] ==
            IF i = 0 THEN <<>> ELSE Upto[i - 1] \o OfEvent(scope.events[i])
    IN  Upto[Len(scope.events)]

\* The loop over debug_info.properties of break_on_dsl_sloc.
CollectMatches(di, dsl_sloc) ==
    LET Upto[i \in 0..Len(di.properties)] ==
            IF i = 0 THEN <<>>
            ELSE Upto[i - 1]
                 \o process_scope(di.properties[i], di.properties[i], dsl_sloc)
    IN  Upto[Len(di.properties)]

\* The numbered list printed for several matches: two lines per match.
RECURSIVE ListMatches(_, _, _)
ListMatches(di, matches, i) ==
    IF i > Len(matches) THEN <<>>
    ELSE << [kind |-> "In", idx |-> i, prop |-> matches[i].prop.name,
             dsl_sloc |-> matches[i].dsl_sloc],
            [kind |-> "at", file |-> di.filename,
             line_no |-> matches[i].line_no] >>
         \o ListMatches(di, matches, i + 1)

\* A line of standard input: end of input, or the text typed.
EndOfInput == [eof |-> TRUE, text |-> <<>>]
Typed(text) == [eof |-> FALSE, text |-> text]

\* matches[choice] of Python, whose indexes start at 0: None when it raises
\* IndexError (choice is never negative here).
Subscript(matches, choice) ==
    IF choice < Len(matches) THEN Some(matches[choice + 1]) ELSE None

\* The range test without its upper bound.
OutOfRange_NoUpper(choice, n) == choice < 1

\* The test `choice < 1 or choice > len(matches)`.
OutOfRange(choice, n) == choice < 1 \/ choice > n

\* The part of break_on_dsl_sloc that runs for several matches, from the
\* prompt on; response is the next line of standard input.
ChooseMatch(di, matches, response) ==
    LET listing == <<Line("Multiple matches", "")>>
                   \o ListMatches(di, matches, 1)
                   \o <<Line("Please chose", "default=1")>>
        asked == <<"get_input">>
        read == <<response>>
        number == ParseInt(response.text)
        choice == IF response.text = <<>> THEN 1 ELSE Get(number)
        m == Subscript(matches, choice)
    IN  IF response.eof
        THEN Effect(None, listing \o <<Line("Aborting", "")>>,
                    <<>>, asked, read, None)
        ELSE IF response.text # <<>> /\ IsNone(number)
        THEN Effect(None,
                    listing \o <<Line("Invalid index choice", response.text)>>,
                    <<>>, asked, read, None)
        ELSE IF response.text # <<>> /\ OutOfRange(choice, Len(matches))
        THEN Effect(None,
                    listing \o <<Line("Choice must be in range", Len(matches))>>,
                    <<>>, asked, read, None)
        ELSE IF IsNone(m)
        THEN Effect(None, listing, <<>>, asked, read, Some("IndexError"))
        ELSE LET bp == gdb_Breakpoint(di.filename, Get(m).line_no)
             IN  Effect(Some(bp), listing, <<bp>>,
                        asked \o <<"gdb.Breakpoint">>, read, None)

break_on_dsl_sloc(di, text, response) ==
    LET dsl_sloc == DSLLocation_parse(text)
        matches == CollectMatches(di, dsl_sloc)
    IN  IF Len(matches) = 0
        THEN Effect(None, <<Line("No match", dsl_sloc)>>, <<>>, <<>>, <<>>,
                    None)
        ELSE IF Len(matches) = 1
        THEN LET bp == gdb_Breakpoint(di.filename, matches[1].line_no)
             IN  Effect(Some(bp), <<>>, <<bp>>, <<"gdb.Breakpoint">>, <<>>,
                        None)
        ELSE ChooseMatch(di, matches, response)

\* `bp.condition = cond` without the except clause.
AttachCondition_Uncaught(r, cond, host_rejects) ==
    IF IsNone(r.ret)
    THEN [r EXCEPT !.raised = Some("AttributeError")]
    ELSE IF host_rejects
    THEN [r EXCEPT !.calls = @ \o <<"bp.condition: gdb.error">>,
                   !.raised = Some("gdb.error")]
    ELSE [r EXCEPT !.calls = @ \o <<"bp.condition">>,
                   !.created = <<[Get(r.ret) EXCEPT !.condition = Some(cond)]>>]

\* `bp.condition = cond` and its except clause, after the resolution
\* effect r; host_rejects says whether the host finds cond invalid, and
\* then raises gdb.error and leaves the breakpoint as it is.  Assigning to
\* an attribute of None raises AttributeError, which nothing catches.
AttachCondition(r, cond, host_rejects) ==
    IF IsNone(r.ret)
    THEN [r EXCEPT !.raised = Some("AttributeError")]
    ELSE IF host_rejects
    THEN [r EXCEPT !.calls = @ \o <<"bp.condition: gdb.error">>,
                   !.out = @ \o <<Line("gdb.error", cond)>>]
    ELSE [r EXCEPT !.calls = @ \o <<"bp.condition">>,
                   !.created = <<[Get(r.ret) EXCEPT !.condition = Some(cond)]>>]

\* BreakCommand.invoke on the argument text made of words.
BreakCommand_invoke(di, words, response, host_rejects) ==
    LET argv == SplitMax(words, 2)
        spec == argv[1]
        cond == IF Len(argv) = 3 THEN argv[3] ELSE <<>>
        r == IF Contains(spec, ":")
             THEN break_on_dsl_sloc(di, spec, response)
             ELSE break_on_property(di, spec)
    IN  IF Len(argv) = 0
        THEN Effect(None, <<Line("Breakpoint specification missing", "")>>,
                    <<>>, <<>>, <<>>, None)
        ELSE IF Len(argv) = 3 /\ argv[2] # <<"i", "f">>
        THEN Effect(None, <<Line("Invalid arguments", "")>>,
                    <<>>, <<>>, <<>>, None)
        ELSE IF Len(argv) \notin {1, 3}
        THEN Effect(None, <<Line("Invalid number of arguments", "")>>,
                    <<>>, <<>>, <<>>, None)
        ELSE IF ~IsNone(r.raised) \/ cond = <<>>
        THEN r
        ELSE AttachCondition(r, cond, host_rejects)

(***************************************************************************)
(* The paused frame: context.decode_state(frame), None outside of any      *)
(* property, and the text frame.read_var gives for each variable.          *)
(***************************************************************************)
Binding(dsl_name, gen_name) == [dsl_name |-> dsl_name, gen_name |-> gen_name]
ExprEval(expr, result_var, dsl_sloc) ==
    [expr |-> expr, result_var |-> result_var, dsl_sloc |-> dsl_sloc]
\* done_exprs and last_started are what sorted_expressions() returns.
ScopeState(bindings, done_exprs, last_started) ==
    [bindings |-> bindings, done_exprs |-> done_exprs,
     last_started |-> last_started]

FrameOutside == [state |-> None, vars |-> <<>>]

\* Two scopes, the inner one shadowing x; one value is longer than the
\* ellipsis limit and one is exactly as long.
FrameInner ==
    [state |-> Some(
        [property |-> [name |-> <<"F", "p">>,
                       dsl_sloc |-> Some(DSLLocation(DslFile, 1, None))],
         in_memoization_lookup |-> FALSE,
         scopes |-> <<
            ScopeState(<<Binding(<<"x">>, <<"X", "1">>),
                         Binding(<<"y">>, <<"Y", "2">>)>>, <<>>, None),
            ScopeState(<<Binding(<<"x">>, <<"X", "3">>)>>,
                       <<ExprEval("x + 1", <<"F", "1">>, None)>>,
                       Some(ExprEval("x + 2", <<>>,
                                     Some(DSLLocation(DslFile, 2, None)))))
         >>]),
     vars |-> (<<"x", "1">> :> <<"1">>) @@ (<<"y", "2">> :> Rep("a", 51))
              @@ (<<"x", "3">> :> <<"2">>) @@ (<<"f", "1">> :> Rep("b", 50))]

\* A memoization lookup; the outer scope has nothing to show, and the only
\* binding differs from x by its case.
FrameMemo ==
    [state |-> Some(
        [property |-> [name |-> <<"F", "p">>, dsl_sloc |-> None],
         in_memoization_lookup |-> TRUE,
         scopes |-> <<
            ScopeState(<<>>, <<>>, None),
            ScopeState(<<Binding(<<"X">>, <<"X", "1">>)>>, <<>>,
                       Some(ExprEval("X", <<>>, None)))
         >>]),
     vars |-> (<<"x", "1">> :> Rep("c", 52))]

\* The frames the process may be paused in, given the loaded index.
FramesOf(di) ==
    {FrameOutside}
    \cup IF \E i \in DOMAIN di.properties :
               di.properties[i].name = <<"F", "p">>
         THEN {FrameInner, FrameMemo}
         ELSE {}

(***************************************************************************)
(* StatePrinter                                                            *)
(***************************************************************************)
ellipsis_limit == 50

\* StatePrinter.__init__: the state is decoded once, the buffer is empty.
StatePrinter(fr, with_ellipsis, with_locs, var_name) ==
    [frame |-> fr, state |-> fr.state, with_ellipsis |-> with_ellipsis,
     with_locs |-> with_locs, var_name |-> var_name, sio |-> <<>>]

loc_image(self, var_name) ==
    IF self.with_locs THEN <<" ", "(">> \o var_name \o <<")">> ELSE <<>>

\* value_image cutting a value as soon as it reaches the limit.
value_image_AtLimit(self, var_name) ==
    LET value == self.frame.vars[lower(var_name)]
    IN  IF self.with_ellipsis /\ Len(value) >= ellipsis_limit
        THEN SubSeq(value, 1, ellipsis_limit) \o <<".", ".", ".">>
        ELSE value

value_image(self, var_name) ==
    LET value == self.frame.vars[lower(var_name)]
    IN  IF self.with_ellipsis /\ Len(value) > ellipsis_limit
        THEN SubSeq(value, 1, ellipsis_limit) \o <<".", ".", ".">>
        ELSE value

\* The line print_binding prints for the binding b.
BindingLine(self, b) ==
    [kind |-> "binding", name |-> b.dsl_name,
     loc |-> loc_image(self, b.gen_name),
     value |-> value_image(self, b.gen_name)]

\* The bindings of all scopes, outermost scope first, each scope's in
\* declaration order: the order in which the two loops visit them.
RECURSIVE AllBindings(_)
AllBindings(scopes) ==
    IF Len(scopes) = 0 THEN <<>>
    ELSE Head(scopes).bindings \o AllBindings(Tail(scopes))

\* The lookup of _render taking the last binding of the name, not the first.
RenderVariable_Innermost(self) ==
    LET bs == AllBindings(Get(self.state).scopes)
        hits == {i \in DOMAIN bs : bs[i].dsl_name = Get(self.var_name)}
    IN  IF hits = {}
        THEN <<Line("No binding called", Get(self.var_name))>>
        ELSE <<BindingLine(self, bs[CHOOSE i \in hits : \A j \in hits : i >= j])>>

\* The lines of _render when a variable name is given.
RenderVariable(self) ==
    LET bs == AllBindings(Get(self.state).scopes)
        hits == {i \in DOMAIN bs : bs[i].dsl_name = Get(self.var_name)}
    IN  IF hits = {}
        THEN <<Line("No binding called", Get(self.var_name))>>
        ELSE <<BindingLine(self, bs[CHOOSE i \in hits : \A j \in hits : i <= j])>>

\* The lines one scope state contributes, before print_info's blank line.
ScopeLines(self, scope_state) ==
    LET bindings == [i \in DOMAIN scope_state.bindings |->
                        BindingLine(self, scope_state.bindings[i])]
        done == [i \in DOMAIN scope_state.done_exprs |->
                    LET e == scope_state.done_exprs[i]
                    IN  [kind |-> "expr", name |-> e.expr,
                         loc |-> loc_image(self, e.result_var),
                         value |-> value_image(self, e.result_var)]]
        current ==
            IF IsNone(scope_state.last_started) THEN <<>>
            ELSE LET e == Get(scope_state.last_started)
                 IN  <<Line("Currently evaluating", e.expr)>>
                     \o IF IsNone(e.dsl_sloc) THEN <<>>
                        ELSE <<Line("from", Get(e.dsl_sloc))>>
    IN  bindings \o done \o current

\* A rendering that opens every scope with a blank line, lines or not.
RECURSIVE RenderScopes_AlwaysBlank(_, _)
RenderScopes_AlwaysBlank(self, scopes) ==
    IF Len(scopes) = 0 THEN <<>>
    ELSE <<Line("blank", "")>> \o ScopeLines(self, Head(scopes))
         \o RenderScopes_AlwaysBlank(self, Tail(scopes))

\* print_info: a blank line goes before the first line of the scope.
RECURSIVE RenderScopes(_, _)
RenderScopes(self, scopes) ==
    IF Len(scopes) = 0 THEN <<>>
    ELSE LET info == ScopeLines(self, Head(scopes))
         IN  (IF Len(info) = 0 THEN <<>> ELSE <<Line("blank", "")>> \o info)
             \o RenderScopes(self, Tail(scopes))

\* StatePrinter._render: the lines it writes to self.sio.
_render(self) ==
    IF IsNone(self.state)
    THEN <<Line("Selected frame is not in a property.", "")>>
    ELSE IF ~IsNone(self.var_name) /\ Get(self.var_name) # <<>>
    THEN RenderVariable(self)
    ELSE LET state == Get(self.state)
         IN  <<Line("Running", state.property.name)>>
             \o (IF IsNone(state.property.dsl_sloc) THEN <<>>
                 ELSE <<Line("from", Get(state.property.dsl_sloc))>>)
             \o (IF state.in_memoization_lookup
                 THEN <<Line("About to return a memoized result...", "")>>
                 ELSE <<>>)
             \o RenderScopes(self, state.scopes)

\* StatePrinter.run: render into the buffer, then print the whole buffer;
\* print ends the text, which already ends a line, with one more newline.
run(self) ==
    LET after == [self EXCEPT !.sio = @ \o _render(self)]
    IN  [printer |-> after, out |-> after.sio \o <<Line("blank", "")>>]

\* StatePrinter.render: render into the buffer, colours off, then return
\* the whole buffer.
render(self) ==
    LET after == [self EXCEPT !.sio = @ \o _render(self)]
    IN  [printer |-> after, ret |-> after.sio]

\* How many renderings the buffer of the instance holds: every call of
\* _render on one instance writes the same lines.
Renderings(self) == Len(self.sio) \div Len(_render(self))

(***************************************************************************)
(* StateCommand                                                            *)
(***************************************************************************)
\* StateCommand.invoke on the argument text made of words.
StateCommand_invoke(fr, words) ==
    LET has_flags == Len(words) > 0 /\ words[1][1] = "/"
        flags == IF has_flags THEN CharSet(Tail(words[1])) ELSE {}
        invalid_flags == flags \ {"s", "f"}
        args == IF has_flags THEN Tail(words) ELSE words
        var_name == IF Len(args) > 0 THEN Some(args[1]) ELSE None
        extra == IF Len(args) > 0 THEN Tail(args) ELSE <<>>
        complaint == IF Len(extra) > 0
                     THEN <<Line("Invalid extra arguments", Join(extra))>>
                     ELSE <<>>
        ran == run(StatePrinter(fr, "f" \notin flags, "s" \in flags, var_name))
    IN  IF invalid_flags # {}
        THEN [out |-> <<Line("Invalid flags", invalid_flags)>>,
              calls |-> <<>>, printer |-> None]
        ELSE [out |-> complaint \o ran.out,
              calls |-> <<"decode_state", "run">>,
              printer |-> Some(ran.printer)]

(***************************************************************************)
(* NextCommand, OutCommand, StepInsideCommand                              *)
(***************************************************************************)
\* The invoke of a stepping command that complains and delegates all the same.
StepCommand_invoke_Anyway(arg, controller) ==
    [out |-> IF Len(arg) > 0
             THEN <<Line("This command takes no argument", "")>> ELSE <<>>,
     calls |-> <<controller>>]

\* The invoke the three stepping commands share, controller being the
\* function of the stepping controller the command delegates to.
StepCommand_invoke(arg, controller) ==
    IF Len(arg) > 0
    THEN [out |-> <<Line("This command takes no argument", "")>>,
          calls |-> <<>>]
    ELSE [out |-> <<>>, calls |-> <<controller>>]

(***************************************************************************)
(* What the user may type.  The texts hold no white space inside a word.   *)
(***************************************************************************)
If == <<"i", "f">>

BreakSpecs ==
    { <<"F", "p">>, <<"f", "P">>, <<"G">>, <<"N">>,
      <<"s", ":", "1">>, <<"s", ":", "2">>, <<"s", ":", "3">> }

Conditions == { <<"c">> }

\* The specifications tried with a malformed rest of the command.
MalformedWith == { <<"F", "p">>, <<"s", ":", "1">> }

BreakArgs ==
    {<<>>}
    \cup {<<spec>> : spec \in BreakSpecs}
    \cup {<<spec, If, cond>> : spec \in BreakSpecs, cond \in Conditions}
    \cup {<<spec, If>> : spec \in MalformedWith}
    \cup {<<spec, <<"I", "F">>, cond>> :
            spec \in MalformedWith, cond \in Conditions}
    \cup {<<spec, If, cond, <<"d">> >> :
            spec \in MalformedWith, cond \in Conditions}

Responses ==
    {EndOfInput}
    \cup {Typed(text) : text \in
            { <<>>, <<"0">>, <<"1">>, <<"2">>, <<"3">>, <<"4">>, <<"x">>,
              <<"-", "1">>, <<"1", "x">> }}

StateArgs ==
    { <<>>,
      << <<"x">> >>, << <<"y">> >>, << <<"X">> >>, << <<"n">> >>,
      << <<"/">> >>, << <<"/", "f">> >>, << <<"/", "s">> >>,
      << <<"/", "s", "f">> >>, << <<"/", "f", "f">> >>,
      << <<"/", "q">> >>, << <<"/", "f", "z", "q">> >>,
      << <<"/", "f">>, <<"x">> >>, << <<"/", "s">>, <<"y">> >>,
      << <<"/", "q">>, <<"x">>, <<"y">> >>,
      << <<"x">>, <<"y">> >>, << <<"n">>, <<"x">>, <<"y">> >>,
      << <<"x">>, <<"/", "f">> >>,
      << <<"/", "f">>, <<"x">>, <<"y">> >>,
      << <<"/", "s">>, <<"y">>, <<"x">>, <<"n">> >> }

StepArgs == { <<>>, << <<"x">> >>, << <<"1">>, <<"2">> >> }

(***************************************************************************)
(* The command loop: one command at a time, run to completion.             *)
(***************************************************************************)
Init ==
    /\ debug_info \in DebugInfos
    /\ frame \in FramesOf(debug_info)
    /\ breakpoints = <<>>
    /\ cmd = [name |-> "none", arg |-> <<>>]
    /\ consumed = <<>>
    /\ out = <<>>
    /\ calls = <<>>
    /\ result = "returned"
    /\ printer = None

\* Whether `break <words>` reads a line of standard input, and whether it
\* then hands a condition to the host: what the handler does not read is
\* not enumerated.
Prompts(di, words) ==
    BreakCommand_invoke(di, words, EndOfInput, FALSE).consumed # <<>>
Attaches(di, words, response) ==
    \E e \in {BreakCommand_invoke(di, words, response, FALSE)} :
        \E i \in DOMAIN e.calls : e.calls[i] = "bp.condition"

\* `break <words>`: response is the next line of standard input, should
\* the command prompt; host_rejects is the host's verdict on the condition.
BreakCmd ==
    /\ Len(breakpoints) < MaxBreakpoints
    /\ \E words \in BreakArgs :
       \E response \in IF Prompts(debug_info, words) THEN Responses
                       ELSE {EndOfInput} :
       \E host_rejects \in IF Attaches(debug_info, words, response)
                           THEN BOOLEAN ELSE {FALSE} :
       \E e \in {BreakCommand_invoke(debug_info, words, response,
                                     host_rejects)} :
              /\ cmd' = [name |-> "break", arg |-> words]
              /\ breakpoints' = breakpoints \o e.created
              /\ consumed' = e.consumed
              /\ out' = e.out
              /\ calls' = e.calls
              /\ result' = IF IsNone(e.raised) THEN "returned"
                           ELSE Get(e.raised)
    /\ printer' = None
    /\ UNCHANGED <<debug_info, frame>>

\* `state <words>`
StateCmd ==
    /\ \E words \in StateArgs :
       \E e \in {StateCommand_invoke(frame, words)} :
              /\ cmd' = [name |-> "state", arg |-> words]
              /\ out' = e.out
              /\ calls' = e.calls
              /\ printer' = e.printer
    /\ consumed' = <<>>
    /\ result' = "returned"
    /\ UNCHANGED <<debug_info, frame, breakpoints>>

\* A stepping command: when it delegates, the stepping controller resumes
\* the process, which pauses again in some frame.
StepCmd(name, controller) ==
    /\ \E words \in StepArgs :
       \E e \in {StepCommand_invoke(Join(words), controller)} :
              /\ cmd' = [name |-> name, arg |-> words]
              /\ out' = e.out
              /\ calls' = e.calls
              /\ IF e.calls = <<>> THEN frame' = frame
                 ELSE frame' \in FramesOf(debug_info)
    /\ consumed' = <<>>
    /\ result' = "returned"
    /\ printer' = None
    /\ UNCHANGED <<debug_info, breakpoints>>

NextCmd == StepCmd("next", "go_next")
OutCmd == StepCmd("out", "go_out")
StepInsideCmd == StepCmd("si", "go_step_inside")

\* run() called once more on the StatePrinter instance at hand.
StatePrinter_run ==
    /\ printer # None
    /\ Renderings(Get(printer)) < MaxRenders
    /\ \E e \in {run(Get(printer))} :
              /\ out' = e.out
              /\ printer' = Some(e.printer)
    /\ cmd' = [name |-> "StatePrinter.run", arg |-> <<>>]
    /\ calls' = <<"run">>
    /\ consumed' = <<>>
    /\ result' = "returned"
    /\ UNCHANGED <<debug_info, frame, breakpoints>>

\* render() called once more on the StatePrinter instance at hand: it
\* prints nothing, and the text it returns is the buffer it leaves.
StatePrinter_render ==
    /\ printer # None
    /\ Renderings(Get(printer)) < MaxRenders
    /\ \E e \in {render(Get(printer))} :
              /\ e.ret = e.printer.sio
              /\ printer' = Some(e.printer)
    /\ cmd' = [name |-> "StatePrinter.render", arg |-> <<>>]
    /\ out' = <<>>
    /\ calls' = <<"render">>
    /\ consumed' = <<>>
    /\ result' = "returned"
    /\ UNCHANGED <<debug_info, frame, breakpoints>>

Next ==
    \/ BreakCmd
    \/ StateCmd
    \/ StatePrinter_run
    \/ StatePrinter_render
    \/ NextCmd
    \/ OutCmd
    \/ StepInsideCmd

Spec == Init /\ [][Next]_vars

(***************************************************************************)
(* Vocabulary of the properties.  What a command is expected to find is    *)
(* stated here on its own, not through the operators of the commands.      *)
(***************************************************************************)
\* The last command was `break` with a well-formed argument: a location,
\* alone or followed by `if` and a condition.
WellFormedBreak(c) ==
    /\ c.name = "break"
    /\ \/ Len(c.arg) = 1
       \/ Len(c.arg) >= 3 /\ c.arg[2] = If
BreakBySloc(c) == WellFormedBreak(c) /\ Contains(c.arg[1], ":")
BreakByName(c) == WellFormedBreak(c) /\ ~Contains(c.arg[1], ":")
HasCondition(c) == Len(c.arg) >= 3

\* The events of a scope tree that are not scopes, in the order of the text.
RECURSIVE FlatEvents(_)
FlatEvents(events) ==
    IF Len(events) = 0 THEN <<>>
    ELSE (IF Head(events).kind = "Scope" THEN FlatEvents(Head(events).events)
          ELSE <<Head(events)>>)
         \o FlatEvents(Tail(events))

\* The generated-code lines of the expression starts of the index located
\* at the DSL location the command names, in discovery order.
RECURSIVE LinesIn(_, _)
LinesIn(properties, query) ==
    IF Len(properties) = 0 THEN <<>>
    ELSE LET starts == SelectSeq(FlatEvents(Head(properties).events),
                LAMBDA e : /\ e.kind = "ExprStart"
                           /\ e.dsl_sloc # None
                           /\ DSLLocation_matches(Get(e.dsl_sloc), query))
         IN  [i \in DOMAIN starts |-> starts[i].line_no]
             \o LinesIn(Tail(properties), query)
Candidates(c) == LinesIn(debug_info.properties, DSLLocation_parse(c.arg[1]))

\* Two texts that differ at most by the case of their letters.
CasePairs ==
    { <<"F", "f">>, <<"P", "p">>, <<"G", "g">>, <<"N", "n">>,
      <<"X", "x">>, <<"Y", "y">> }
SameIgnoringCase(a, b) ==
    /\ Len(a) = Len(b)
    /\ \A i \in DOMAIN a :
          a[i] = b[i] \/ <<a[i], b[i]>> \in CasePairs
                      \/ <<b[i], a[i]>> \in CasePairs

\* The step created exactly one breakpoint, at this line of the generated
\* file, and left the others alone.
CreatedOneAt(line) ==
    /\ Len(breakpoints') = Len(breakpoints) + 1
    /\ SubSeq(breakpoints', 1, Len(breakpoints)) = breakpoints
    /\ breakpoints'[Len(breakpoints')].location
         = [file |-> debug_info.filename, line |-> line]
CreatedNone == breakpoints' = breakpoints

\* The last line printed is one of these messages.
LastPrinted(lines, kinds) ==
    Len(lines) > 0 /\ lines[Len(lines)].kind \in kinds

\* The number a response reads as, when it is one of the numerals tried.
Numerals ==
    { <<"0">>, <<"1">>, <<"2">>, <<"3">>, <<"4">>, <<"-", "1">> }
NumeralValue(text) ==
    CASE text = <<"0">> -> 0 [] text = <<"1">> -> 1 [] text = <<"2">> -> 2
      [] text = <<"3">> -> 3 [] text = <<"4">> -> 4
      [] text = <<"-", "1">> -> 0 - 1

\* The response must be refused when n matches are offered.
Refused(response, n) ==
    \/ response.eof
    \/ /\ response.text # <<>>
       /\ \/ response.text \notin Numerals
          \/ NumeralValue(response.text) < 1
          \/ NumeralValue(response.text) > n

(***************************************************************************)
(* C1.  When the query of `break` matches several expression starts and    *)
(* the user answers the prompt with an empty line, exactly one breakpoint  *)
(* is created, at the generated-code line of the first match listed.       *)
(***************************************************************************)
C1_EmptyResponseTakesFirst ==
    [][ ( /\ BreakBySloc(cmd')
          /\ Len(Candidates(cmd')) > 1
          /\ consumed' = <<Typed(<<>>)>> )
        => CreatedOneAt(Candidates(cmd')[1]) ]_vars

(***************************************************************************)
(* C2.  With N > 1 matches, every numeric answer k with 1 <= k <= N is     *)
(* accepted: the command returns without raising and exactly one           *)
(* breakpoint is created, at the line of the match listed as [k].          *)
(***************************************************************************)
C2_EveryListedChoiceAccepted ==
    [][ ( /\ BreakBySloc(cmd')
          /\ Len(Candidates(cmd')) > 1
          /\ Len(consumed') = 1
          /\ ~consumed'[1].eof
          /\ consumed'[1].text \in Numerals
          /\ NumeralValue(consumed'[1].text) \in 1..Len(Candidates(cmd')) )
        => /\ result' = "returned"
           /\ CreatedOneAt(Candidates(cmd')[NumeralValue(consumed'[1].text)])
      ]_vars

ResolutionFailures ==
    {"No such property", "Cannot break: no code", "No match", "Aborting",
     "Invalid index choice", "Choice must be in range"}

C4_FailedResolutionReturns ==
    [][ ( /\ WellFormedBreak(cmd')
          /\ LastPrinted(out', ResolutionFailures) )
        => CreatedNone /\ result' = "returned" ]_vars

(***************************************************************************)
(* C5.  break_on_property looks the qualified name up without regard to    *)
(* case, and creates exactly one breakpoint, at the body start of the      *)
(* property in the generated file, if and only if a property of that name  *)
(* exists and has a body; otherwise it prints a message and creates none.  *)
(* Two spellings that differ only by case create the same breakpoints.     *)
(***************************************************************************)
PropertiesNamed(name) ==
    {i \in DOMAIN debug_info.properties :
        SameIgnoringCase(debug_info.properties[i].name, name)}

C5_ByNameIgnoresCase ==
    [][ BreakByName(cmd')
        => LET named == PropertiesNamed(cmd'.arg[1])
               prop == debug_info.properties[CHOOSE i \in named : TRUE]
           IN  /\ Cardinality(named) <= 1
               /\ IF named # {} /\ prop.body_start # None
                  THEN /\ CreatedOneAt(Get(prop.body_start))
                       /\ \A i \in DOMAIN out' :
                             out'[i].kind \notin ResolutionFailures
                  ELSE /\ CreatedNone
                       /\ LastPrinted(out',
                             IF named = {} THEN {"No such property"}
                             ELSE {"Cannot break: no code"})
               /\ \A other \in BreakSpecs :
                     ( /\ ~Contains(other, ":")
                       /\ SameIgnoringCase(other, cmd'.arg[1]) )
                     => break_on_property(debug_info, other).created
                          = break_on_property(debug_info, cmd'.arg[1]).created
      ]_vars

C5_Witness ==
    /\ cmd.name = "break"
    /\ cmd.arg = << <<"f", "P">> >>
    /\ debug_info = IndexNested
    /\ breakpoints = <<gdb_Breakpoint("foo.adb", 10)>>
    /\ out = <<>>

(***************************************************************************)
(* C6.  break_on_dsl_sloc collects the expression starts located at the    *)
(* query over every property and every nested scope.  With no match it     *)
(* prints 'No match' and creates no breakpoint; with exactly one it        *)
(* creates one breakpoint at that match's generated-code line and reads no *)
(* input; with several, the list it prints shows them all, in order.       *)
(***************************************************************************)
ListedLines(lines) ==
    LET at == SelectSeq(lines, LAMBDA l : l.kind = "at")
    IN  [i \in DOMAIN at |-> at[i].line_no]

C6_SlocResolution ==
    [][ BreakBySloc(cmd')
        => LET found == Candidates(cmd')
           IN  /\ Len(found) = 0
                    => /\ CreatedNone
                       /\ Len(out') = 1 /\ out'[1].kind = "No match"
                       /\ consumed' = <<>>
                       /\ calls' = <<>>
               /\ Len(found) = 1
                    => /\ CreatedOneAt(found[1])
                       /\ consumed' = <<>>
                       /\ \A i \in DOMAIN calls' : calls'[i] # "get_input"
                       /\ \A i \in DOMAIN out' :
                             out'[i].kind \notin
                                {"Multiple matches", "Please chose", "at"}
               /\ Len(found) > 1
                    => /\ ListedLines(out') = found
                       /\ Len(consumed') = 1
      ]_vars

C6_Witness ==
    /\ cmd.name = "break"
    /\ cmd.arg = << <<"s", ":", "2">> >>
    /\ debug_info = IndexNested
    /\ breakpoints = <<gdb_Breakpoint("foo.adb", 13)>>
    /\ consumed = <<>>

(***************************************************************************)
(* C7.  When `break <spec> if <cond>` resolves to a location and the host  *)
(* rejects the condition, the handler prints the host's error and returns  *)
(* normally; the breakpoint it created stays, without a condition.         *)
(***************************************************************************)
HostRejected(called) ==
    Len(called) > 0 /\ called[Len(called)] = "bp.condition: gdb.error"

C7_RejectedConditionKeepsBreakpoint ==
    [][ (cmd'.name = "break" /\ HostRejected(calls'))
        => /\ HasCondition(cmd')
           /\ result' = "returned"
           /\ LastPrinted(out', {"gdb.error"})
           /\ out'[Len(out')].text = Join(Drop(cmd'.arg, 2))
           /\ Len(breakpoints') = Len(breakpoints) + 1
           /\ SubSeq(breakpoints', 1, Len(breakpoints)) = breakpoints
           /\ breakpoints'[Len(breakpoints')].condition = None
           /\ breakpoints'[Len(breakpoints')].location.file
                = debug_info.filename ]_vars

C7_Witness ==
    /\ cmd.name = "break"
    /\ cmd.arg = << <<"F", "p">>, If, <<"c">> >>
    /\ HostRejected(calls)
    /\ debug_info = IndexNested
    /\ breakpoints = <<gdb_Breakpoint("foo.adb", 10)>>
    /\ result = "returned"

(***************************************************************************)
(* C8.  When `state` is given more than one positional argument, it        *)
(* reports 'Invalid extra arguments' and delegates nothing: the state is   *)
(* not decoded and nothing is rendered.                                    *)
(***************************************************************************)
HasFlags(c) == Len(c.arg) > 0 /\ c.arg[1][1] = "/"
FlagChars(c) == IF HasFlags(c) THEN CharSet(Tail(c.arg[1])) ELSE {}
Positionals(c) == IF HasFlags(c) THEN Tail(c.arg) ELSE c.arg

C8_ExtraArgumentsNotRendered ==
    ( /\ cmd.name = "state"
      /\ FlagChars(cmd) \subseteq {"f", "s"}
      /\ Len(Positionals(cmd)) > 1 )
    => /\ Len(out) = 1
       /\ out[1].kind = "Invalid extra arguments"
       /\ calls = <<>>
       /\ printer = None

(***************************************************************************)
(* C9.  Arguments of the wrong shape are rejected before any delegation:   *)
(* `state` with a flag character other than f and s prints the invalid     *)
(* characters and renders nothing; `break` with zero or two words, or with *)
(* a second word other than `if`, prints a message and creates no          *)
(* breakpoint; `next`, `out` and `si` with an argument print a message and *)
(* do not call the stepping controller.                                    *)
(***************************************************************************)
C9_WrongShapeRejected ==
    [][ /\ ( cmd'.name = "state" /\ ~(FlagChars(cmd') \subseteq {"f", "s"}) )
           => /\ Len(out') = 1
              /\ out'[1].kind = "Invalid flags"
              /\ out'[1].text = FlagChars(cmd') \ {"f", "s"}
              /\ calls' = <<>>
              /\ printer' = None
        /\ ( cmd'.name = "break" /\ ~WellFormedBreak(cmd') )
           => /\ Len(out') = 1
              /\ out'[1].kind =
                    IF Len(cmd'.arg) = 0
                    THEN "Breakpoint specification missing"
                    ELSE IF Len(cmd'.arg) = 2
                    THEN "Invalid number of arguments"
                    ELSE "Invalid arguments"
              /\ CreatedNone
              /\ calls' = <<>>
              /\ consumed' = <<>>
              /\ result' = "returned"
        /\ ( cmd'.name \in {"next", "out", "si"} /\ Len(cmd'.arg) > 0 )
           => /\ Len(out') = 1
              /\ out'[1].kind = "This command takes no argument"
              /\ calls' = <<>>
              /\ frame' = frame ]_vars

C9_Witness ==
    /\ cmd.name = "si"
    /\ cmd.arg = << <<"x">> >>
    /\ Len(out) = 1
    /\ out[1].kind = "This command takes no argument"
    /\ calls = <<>>

(***************************************************************************)
(* C10.  With a variable name and a frame inside a property, _render       *)
(* writes exactly one line: the name and value of the first binding, the   *)
(* scopes taken outermost first and the bindings of a scope in declaration *)
(* order, whose DSL name is exactly the name given; or, when no binding    *)
(* has that name, the line 'No binding called <name>'.                     *)
(***************************************************************************)
C10_FilterRendersOneBinding ==
    ( /\ cmd.name = "state"
      /\ printer # None
      /\ frame.state # None
      /\ Len(Positionals(cmd)) > 0 )
    => LET self == Get(printer)
           name == Positionals(cmd)[1]
           scopes == Get(frame.state).scopes
           places == UNION { { <<i, j>> : j \in
                                 {k \in DOMAIN scopes[i].bindings :
                                     scopes[i].bindings[k].dsl_name = name} }
                             : i \in DOMAIN scopes }
           NotAfter(a, b) == a[1] < b[1] \/ (a[1] = b[1] /\ a[2] <= b[2])
           first == CHOOSE a \in places : \A b \in places : NotAfter(a, b)
           b == scopes[first[1]].bindings[first[2]]
       IN  /\ Len(self.sio) = 1
           /\ IF places = {}
              THEN /\ self.sio[1].kind = "No binding called"
                   /\ self.sio[1].text = name
              ELSE /\ self.sio[1].kind = "binding"
                   /\ self.sio[1].name = name
                   /\ self.sio[1].loc = loc_image(self, b.gen_name)
                   /\ self.sio[1].value = value_image(self, b.gen_name)

C10_Witness ==
    /\ cmd.name = "state"
    /\ cmd.arg = << <<"x">> >>
    /\ frame = FrameInner
    /\ printer # None
    /\ Get(printer).sio = << [kind |-> "binding", name |-> <<"x">>,
                              loc |-> <<>>, value |-> <<"1">>] >>

(***************************************************************************)
(* C11.  With the ellipsis enabled, a value whose display text is longer   *)
(* than 50 characters is rendered as its first 50 characters followed by   *)
(* '...', and a value of 50 characters or fewer is rendered unchanged;     *)
(* with the f flag the display text is rendered unchanged, whatever its    *)
(* length.                                                                 *)
(***************************************************************************)
\* The image the claim gives the display text raw.
ClaimedImage(raw, with_ellipsis) ==
    IF with_ellipsis /\ Len(raw) > 50
    THEN [i \in 1..53 |-> IF i <= 50 THEN raw[i] ELSE "."]
    ELSE raw

\* The generated-code variables a rendered line may show: those of the
\* bindings of its name for a binding line, those of the finished
\* expressions of its text for an expression line.
VariablesShownBy(scopes, line) ==
    UNION { IF line.kind = "binding"
            THEN {scopes[i].bindings[j].gen_name :
                     j \in {k \in DOMAIN scopes[i].bindings :
                               scopes[i].bindings[k].dsl_name = line.name}}
            ELSE {scopes[i].done_exprs[j].result_var :
                     j \in {k \in DOMAIN scopes[i].done_exprs :
                               scopes[i].done_exprs[k].expr = line.name}}
            : i \in DOMAIN scopes }

C11_EllipsisAtFifty ==
    ( /\ cmd.name = "state"
      /\ printer # None
      /\ frame.state # None )
    => LET self == Get(printer)
           with_ellipsis == "f" \notin FlagChars(cmd)
           scopes == Get(frame.state).scopes
       IN  /\ \A v \in DOMAIN frame.vars :
                 value_image(self, v)
                    = ClaimedImage(frame.vars[v], with_ellipsis)
           /\ \A i \in DOMAIN self.sio :
                 self.sio[i].kind \in {"binding", "expr"}
                 => \E v \in VariablesShownBy(scopes, self.sio[i]) :
                       self.sio[i].value
                          = ClaimedImage(frame.vars[lower(v)], with_ellipsis)

C11_Witness ==
    /\ cmd.name = "state"
    /\ cmd.arg = << <<"y">> >>
    /\ frame = FrameInner
    /\ printer # None
    /\ Len(Get(printer).sio) = 1
    /\ Get(printer).sio[1].value = Rep("a", 50) \o <<".", ".", ".">>

(***************************************************************************)
(* C12.  Unfiltered rendering of a frame inside a property emits, in this  *)
(* order: the 'Running <property>' header, its source location if any, the *)
(* memoization note if in memoization lookup, then for each scope,         *)
(* outermost first: its bindings in declaration order, its finished        *)
(* expressions in completion order, the in-flight expression if any.       *)
(* Exactly one blank line goes before the first line of each scope that    *)
(* emits a line, none for a scope that emits nothing.                      *)
(***************************************************************************)
\* What the claim puts at one place of the text: the kind of line, and
\* the scope (0 for the header) and position it is taken from.
Place(kind, scope, at) == [kind |-> kind, scope |-> scope, at |-> at]

ClaimedHeader(state) ==
    <<Place("Running", 0, 0)>>
    \o (IF IsNone(state.property.dsl_sloc) THEN <<>>
        ELSE <<Place("from", 0, 0)>>)
    \o (IF state.in_memoization_lookup
        THEN <<Place("About to return a memoized result...", 0, 0)>>
        ELSE <<>>)

ClaimedGroup(scopes, i) ==
    LET sc == scopes[i]
        bound == [j \in 1..Len(sc.bindings) |-> Place("binding", i, j)]
        finished == [j \in 1..Len(sc.done_exprs) |-> Place("expr", i, j)]
        inflight == IF IsNone(sc.last_started) THEN <<>>
                    ELSE <<Place("Currently evaluating", i, 0)>>
                         \o (IF IsNone(Get(sc.last_started).dsl_sloc)
                             THEN <<>> ELSE <<Place("from", i, 0)>>)
        emitted == bound \o finished \o inflight
    IN  IF Len(emitted) = 0 THEN <<>>
        ELSE <<Place("blank", i, 0)>> \o emitted

RECURSIVE ClaimedGroups(_, _)
ClaimedGroups(scopes, i) ==
    IF i > Len(scopes) THEN <<>>
    ELSE ClaimedGroup(scopes, i) \o ClaimedGroups(scopes, i + 1)

\* The rendered line is the one the claim puts at place p.
LineAt(line, p, state) ==
    /\ line.kind = p.kind
    /\ p.kind = "Running" => line.text = state.property.name
    /\ (p.kind = "from" /\ p.scope = 0)
       => line.text = Get(state.property.dsl_sloc)
    /\ (p.kind = "from" /\ p.scope > 0)
       => line.text = Get(Get(state.scopes[p.scope].last_started).dsl_sloc)
    /\ p.kind = "Currently evaluating"
       => line.text = Get(state.scopes[p.scope].last_started).expr
    /\ p.kind = "binding"
       => line.name = state.scopes[p.scope].bindings[p.at].dsl_name
    /\ p.kind = "expr"
       => line.name = state.scopes[p.scope].done_exprs[p.at].expr

C12_RenderingOrder ==
    ( /\ cmd.name = "state"
      /\ printer # None
      /\ frame.state # None
      /\ Positionals(cmd) = <<>> )
    => LET sio == Get(printer).sio
           state == Get(frame.state)
           claimed == ClaimedHeader(state) \o ClaimedGroups(state.scopes, 1)
       IN  /\ Len(sio) = Len(claimed)
           /\ \A i \in DOMAIN sio : LineAt(sio[i], claimed[i], state)

\* A frame whose outer scope emits nothing: four lines and one blank.
C12_Witness ==
    /\ cmd.name = "state"
    /\ Positionals(cmd) = <<>>
    /\ frame = FrameMemo
    /\ printer # None
    /\ Len(Get(printer).sio) = 5
    /\ Get(printer).sio[3].kind = "blank"
    /\ Get(printer).sio[5].kind = "Currently evaluating"

(***************************************************************************)
(* C13.  Rendering the same unchanged paused frame repeatedly gives the    *)
(* same text every time: each `state` command and each call of render()    *)
(* or run(), also a repeated call on one StatePrinter instance, outputs    *)
(* exactly one rendering of the snapshot, with nothing carried over from   *)
(* an earlier rendering.                                                   *)
(***************************************************************************)
\* One rendering of the paused frame, as an instance just built with the
\* options of self writes it.
OneRendering(self) ==
    _render(StatePrinter(frame, self.with_ellipsis, self.with_locs,
                         self.var_name))

\* The last lines of the printed text, as many as there are in text.
PrintedLast(text) ==
    /\ Len(out) >= Len(text)
    /\ SubSeq(out, Len(out) - Len(text) + 1, Len(out)) = text

C13_EachCallRendersOnce ==
    ( /\ printer # None
      /\ cmd.name \in {"state", "StatePrinter.run", "StatePrinter.render"} )
    => LET self == Get(printer)
           once == OneRendering(self)
       IN  /\ self.sio = once
           /\ cmd.name # "StatePrinter.render"
              => PrintedLast(once \o <<Line("blank", "")>>)
           /\ cmd.name = "StatePrinter.run"
              => out = once \o <<Line("blank", "")>>

====
